---------------------------- MODULE Spec2Model ----------------------------
(***************************************************************************)
(* A model of dadalus: the maze generator of src/src/wilsons.rs (Wilson's  *)
(* algorithm: loop-erased random walks), the wall-encoded cell grid of     *)
(* src/src/maze.rs and the set of wall segments Maze::draw strokes.        *)
(*                                                                         *)
(* Indices are the source's: cell i of a grid of width W is column         *)
(* i % W of row i \div W; the candidate pool and the walk scratch list are *)
(* sequences whose last element is the top of the Vec.  The random source  *)
(* is a nondeterministic choice over every outcome a shuffle can produce.  *)
(***************************************************************************)
EXTENDS Integers, Sequences, FiniteSets, TLC

\* ------------------------------------------------------------- bounds ----
\* Grids of every width 0..MaxW and height 0..MaxH with at most MaxCells cells.
MaxW == 4
MaxH == 4
MaxCells == 6
\* Longest walk scratch list the model follows (the code's list is unbounded).
MaxWalk == 6
\* Largest grid (in cells) whose walks are followed without a length bound.
LiveMaxCells == 4

\* ------------------------------------------------- program constants ----
\* main.rs: maze.draw(25)
CellSize == 25

VARIABLES
    width,            \* Generator.width
    height,           \* Generator.height
    cells,            \* Generator.cells : [0..len-1 -> Cell]
    unvisited_candidates, \* Generator.unvisited_candidates (last = top)
    pc,               \* position in generate
    start_idx,        \* start of the walk in progress (None outside a walk)
    curr_idx,         \* the walk's / the carving's current cell
    last_direction,   \* carving phase: Option<Direction>
    walk_indexes,     \* scratch list of the walk
    maze,             \* the Maze returned by generate (NoMaze before)
    pre_cells,        \* history: cells when the walk in progress started
    carved,           \* history: the <<cell, direction>> steps carving replayed
    walks             \* history: walks started so far

vars == <<width, height, cells, unvisited_candidates, pc, start_idx, curr_idx,
          last_direction, walk_indexes, maze, pre_cells, carved, walks>>

\* ------------------------------------------------------------- values ----
None == -1                       \* Option<usize>::None
NoDirection == "None"            \* Option<Direction>::None
North == "North"
South == "South"
East == "East"
West == "West"
Direction == {North, South, East, West}

\* maze.rs Cell: two bits packed in a u8 (bit 0 west, bit 1 north).
MazeCellNew(west, north) ==
    (IF west THEN 1 ELSE 0) + (IF north THEN 2 ELSE 0)
west_open(bits) == bits % 2 > 0
north_open(bits) == (bits \div 2) % 2 > 0
set_west_open(bits) == IF bits % 2 = 1 THEN bits ELSE bits + 1
\* mutant: set_north_open written with the west mask
set_north_open_west_mask(bits) == set_west_open(bits)
set_north_open(bits) == IF (bits \div 2) % 2 = 1 THEN bits ELSE bits + 2

\* wilsons.rs Cell
Empty == [tag |-> "Empty"]
Walk(d) == [tag |-> "Walk", direction |-> d]
InMaze(bits) == [tag |-> "InMaze", bits |-> bits]
IsInMaze(c) == c.tag = "InMaze"
IsWalk(c) == c.tag = "Walk"

NoMaze == [width |-> None, height |-> None, cells |-> <<>>]

\* Maze::new: every cell Cell::new(false, false)
MazeNew(w, h) ==
    [width |-> w, height |-> h,
     cells |-> [i \in 0..(w * h - 1) |-> MazeCellNew(FALSE, FALSE)]]

\* Generator::len
len == width * height
\* Generator::is_empty
is_empty == len = 0
Index == 0..(len - 1)

\* mutant: West taken without the column test, so column 0 steps back to the
\* end of the row above
adjacent_index_west_wraps(index, direction) ==
    CASE direction = West -> index - 1
      [] direction = East ->
            IF index % width = width - 1 THEN None ELSE index + 1
      [] direction = North ->
            IF index < width THEN None ELSE index - width
      [] direction = South ->
            IF index >= width * (height - 1) THEN None ELSE index + width

\* mutant: East tested against width instead of width - 1, so the last
\* column steps on into the next row
adjacent_index_east_wraps(index, direction) ==
    CASE direction = West ->
            IF index % width = 0 THEN None ELSE index - 1
      [] direction = East ->
            IF index % width = width THEN None ELSE index + 1
      [] direction = North ->
            IF index < width THEN None ELSE index - width
      [] direction = South ->
            IF index >= width * (height - 1) THEN None ELSE index + width

\* Generator::adjacent_index
adjacent_index(index, direction) ==
    CASE direction = West ->
            IF index % width = 0 THEN None ELSE index - 1
      [] direction = East ->
            IF index % width = width - 1 THEN None ELSE index + 1
      [] direction = North ->
            IF index < width THEN None ELSE index - width
      [] direction = South ->
            IF index >= width * (height - 1) THEN None ELSE index + width

\* Every order a shuffle can leave the elements of S in.
RECURSIVE Shuffles(_)
Shuffles(S) ==
    IF S = {} THEN {<<>>}
    ELSE UNION {{<<x>> \o p : p \in Shuffles(S \ {x})} : x \in S}

\* generate's `directions` array after directions.shuffle(rng)
ShuffledDirections == Shuffles(Direction)

\* mutant: gives up at the first candidate that is already InMaze
choose_walk_start_stops(p, cs) ==
    IF Len(p) = 0 THEN [candidate |-> None, pool |-> p]
    ELSE IF ~IsInMaze(cs[p[Len(p)]])
         THEN [candidate |-> p[Len(p)], pool |-> SubSeq(p, 1, Len(p) - 1)]
         ELSE [candidate |-> None, pool |-> SubSeq(p, 1, Len(p) - 1)]

\* mutant: returns the popped candidate without looking at its cell
choose_walk_start_no_skip(p, cs) ==
    IF Len(p) = 0 THEN [candidate |-> None, pool |-> p]
    ELSE [candidate |-> p[Len(p)], pool |-> SubSeq(p, 1, Len(p) - 1)]

\* mutant: candidates taken from the front of the pool (remove(0), not pop)
RECURSIVE choose_walk_start_from_front(_, _)
choose_walk_start_from_front(p, cs) ==
    IF Len(p) = 0 THEN [candidate |-> None, pool |-> p]
    ELSE IF ~IsInMaze(cs[Head(p)])
         THEN [candidate |-> Head(p), pool |-> Tail(p)]
         ELSE choose_walk_start_from_front(Tail(p), cs)

\* Generator::choose_walk_start on pool p: pops until a cell that is not
\* InMaze; the result and the pool that is left.
RECURSIVE choose_walk_start(_, _)
choose_walk_start(p, cs) ==
    IF Len(p) = 0 THEN [candidate |-> None, pool |-> p]
    ELSE LET idx == p[Len(p)]
             rest == SubSeq(p, 1, Len(p) - 1)
         IN IF ~IsInMaze(cs[idx])
            THEN [candidate |-> idx, pool |-> rest]
            ELSE choose_walk_start(rest, cs)

\* mutant: the loop stops one direction early (dir_idx < len - 1 tested
\* after the increment), so the fourth direction is never tried
scan_directions_three(from_idx, directions, dir_idx) ==
    LET try(k) == adjacent_index(from_idx, directions[k])
        k == IF try(1) # None THEN 1 ELSE IF try(2) # None THEN 2 ELSE 3
    IN [panic |-> try(k) = None, direction |-> directions[k],
        adjacent |-> try(k)]

\* Generator::choose_random_adjacent after the shuffle left `directions`:
\* the loop from dir_idx on.  panic: directions[dir_idx] out of bounds, or
\* adjacent.unwrap() on None.
RECURSIVE scan_directions(_, _, _)
scan_directions(from_idx, directions, dir_idx) ==
    LET direction == directions[dir_idx + 1]
        adjacent == adjacent_index(from_idx, direction)
    IN IF adjacent = None /\ dir_idx < Len(directions)
       THEN IF dir_idx + 1 >= Len(directions)
            THEN [panic |-> TRUE, direction |-> direction, adjacent |-> None]
            ELSE scan_directions(from_idx, directions, dir_idx + 1)
       ELSE [panic |-> adjacent = None, direction |-> direction,
             adjacent |-> adjacent]

choose_random_adjacent(from_idx, directions) ==
    scan_directions(from_idx, directions, 0)

\* mutant: a cell the walk re-enters keeps the direction it first left by
walk_cell_keeps_first(old, direction) ==
    IF IsWalk(old) THEN old ELSE Walk(direction)

\* walk phase: *self.cell_mut(curr_idx) = Walk(direction)
walk_cell(old, direction) == Walk(direction)

\* mutant: the write placed after the break, so the walk's last cell is
\* left as it was
walk_written_after_break(cs, curr, direction, adjacent) ==
    IF IsInMaze(cs[adjacent]) THEN cs
    ELSE [cs EXCEPT ![curr] = walk_cell(cs[curr], direction)]

\* walk phase: the cells after *self.cell_mut(curr_idx) = Walk(direction),
\* written before adjacent_idx is looked at
walk_written(cs, curr, direction, adjacent) ==
    [cs EXCEPT ![curr] = walk_cell(cs[curr], direction)]

\* mutant: the tree test matches only an InMaze cell with both walls closed
hits_tree_closed_only(cs, adjacent_idx) ==
    cs[adjacent_idx] = InMaze(MazeCellNew(FALSE, FALSE))

\* mutant: the walk stops at any visited cell, Walk cells included
hits_tree_any_visited(cs, adjacent_idx) == cs[adjacent_idx] # Empty

\* walk phase: if let InMaze(_) = self.cell(adjacent_idx) { break; }
hits_tree(cs, adjacent_idx) == IsInMaze(cs[adjacent_idx])

\* mutant: curr_idx is not reset to start_idx before carving
carve_start_stale(start, curr) == curr

\* carving phase: curr_idx = start_idx, from the walk's (start, last cell)
carve_start(start, curr) == start

\* mutant: the carved cell ignores the direction it was entered by
carved_cell_forgets_entry(direction, last) ==
    InMaze(MazeCellNew(direction = West, direction = North))

\* carving phase, Walk arm: the InMaze cell installed at a Walk(direction)
\* cell entered by last (NoDirection at the start)
carved_cell(direction, last) ==
    InMaze(MazeCellNew(direction = West \/ last = East,
                       direction = North \/ last = South))

\* mutant: the rejoined cell opens the wrong one of its two walls
joined_cell_swapped(bits, last) ==
    InMaze(CASE last = East -> set_north_open(bits)
             [] last = South -> set_west_open(bits)
             [] OTHER -> bits)

\* mutant: the rejoined cell opens both of its walls whatever the entry
joined_cell_opens_both(bits, last) ==
    InMaze(set_north_open(set_west_open(bits)))

\* carving phase, InMaze arm: the existing maze cell opened on the side the
\* path entered it from
joined_cell(bits, last) ==
    InMaze(CASE last = East -> set_west_open(bits)
             [] last = South -> set_north_open(bits)
             [] OTHER -> bits)

\* mutant: the entrance cutout taken for every cell of column 0 or row 0
north_wall_drawn_wide_cutout(bits, x, y) ==
    ~(north_open(bits) \/ x = 0 \/ y = 0)

\* Maze::draw: whether the north wall of cell (x, y) is stroked
north_wall_drawn(bits, x, y) == ~(north_open(bits) \/ (x = 0 /\ y = 0))

\* Maze::draw: whether the west wall of a cell is stroked
west_wall_drawn(bits) == ~west_open(bits)

\* Maze::draw(cell_size) on a maze with width, height >= 1: the segments
\* <<x1, y1, x2, y2>> stroked (move_to, line_to).  The coordinates are u32
\* products converted to f64 and f32, exact for the sizes of this model.
draw(m, cell_size) ==
    LET per_cell(x, y) ==
            LET bits == m.cells[y * m.width + x]
                top_left_x == x * cell_size
                top_left_y == y * cell_size
            IN IF north_open(bits) /\ west_open(bits) THEN {}
               ELSE (IF north_wall_drawn(bits, x, y)
                     THEN {<<top_left_x, top_left_y,
                             top_left_x + cell_size, top_left_y>>}
                     ELSE {})
                    \cup
                    (IF west_wall_drawn(bits)
                     THEN {<<top_left_x, top_left_y,
                             top_left_x, top_left_y + cell_size>>}
                     ELSE {})
    IN UNION {per_cell(x, y) : x \in 0..(m.width - 1),
                               y \in 0..(m.height - 1)}
       \cup {<<0, m.height * cell_size,
               (m.width - 1) * cell_size, m.height * cell_size>>}
       \cup {<<m.width * cell_size, 0,
               m.width * cell_size, m.height * cell_size>>}

\* mutant: the cleanup loop left out
cleaned_cell_kept(cell, listed) == cell

\* cleanup loop: a cell still Walk that is in the scratch list becomes Empty
cleaned_cell(cell, listed) ==
    IF listed /\ IsWalk(cell) THEN Empty ELSE cell

\* mutant: the pool filled with 0..len-1 exclusive, one index short
initial_candidates_short(n) == [k \in 1..(n - 1) |-> k - 1]

\* Generator::new: unvisited_candidates = (0..len).collect()
initial_candidates(n) == [k \in 1..n |-> k - 1]

\* --------------------------------------------------------------- init ----
Dims == {d \in (0..MaxW) \X (0..MaxH) : d[1] * d[2] <= MaxCells}

\* Generator::new(width, height)
Init ==
    /\ \E d \in Dims : width = d[1] /\ height = d[2]
    /\ cells = [i \in 0..(width * height - 1) |-> Empty]
    /\ unvisited_candidates = initial_candidates(width * height)
    /\ pc = "generate"
    /\ start_idx = None
    /\ curr_idx = None
    /\ last_direction = NoDirection
    /\ walk_indexes = <<>>
    /\ maze = NoMaze
    /\ pre_cells = cells
    /\ carved = <<>>
    /\ walks = 0

\* ------------------------------------------------------------ actions ----
\* generate on an empty grid: return Maze::new(0, 0)
GenerateEmpty ==
    /\ pc = "generate"
    /\ is_empty
    /\ maze' = MazeNew(0, 0)
    /\ pc' = "done"
    /\ UNCHANGED <<width, height, cells, unvisited_candidates, start_idx,
                   curr_idx, last_direction, walk_indexes, pre_cells, carved,
                   walks>>

\* generate: shuffle the pool, pop the initial cell and put it in the maze
GenerateSeed ==
    /\ pc = "generate"
    /\ ~is_empty
    /\ \E shuffled \in Shuffles({unvisited_candidates[k] :
                                    k \in 1..Len(unvisited_candidates)}) :
          LET r == choose_walk_start(shuffled, cells)
          IN IF r.candidate = None
             THEN /\ pc' = "panic_seed"
                  /\ UNCHANGED cells
                  /\ unvisited_candidates' = r.pool
             ELSE /\ cells' = [cells EXCEPT ![r.candidate] =
                                    InMaze(MazeCellNew(FALSE, FALSE))]
                  /\ unvisited_candidates' = r.pool
                  /\ pc' = "outer"
    /\ pre_cells' = cells'
    /\ UNCHANGED <<width, height, start_idx, curr_idx, last_direction,
                   walk_indexes, maze, carved, walks>>

\* while let Some(start_idx) = self.choose_walk_start(): a walk starts
WalkStart ==
    /\ pc = "outer"
    /\ LET r == choose_walk_start(unvisited_candidates, cells)
       IN /\ r.candidate # None
          /\ unvisited_candidates' = r.pool
          /\ start_idx' = r.candidate
          /\ curr_idx' = r.candidate
    /\ walk_indexes' = <<>>
    /\ last_direction' = NoDirection
    /\ pre_cells' = cells
    /\ carved' = <<>>
    /\ walks' = walks + 1
    /\ pc' = "walk"
    /\ UNCHANGED <<width, height, cells, maze>>

\* the outer loop ends: choose_walk_start returned None
OuterEnd ==
    /\ pc = "outer"
    /\ LET r == choose_walk_start(unvisited_candidates, cells)
       IN /\ r.candidate = None
          /\ unvisited_candidates' = r.pool
    /\ pc' = "emit"
    /\ UNCHANGED <<width, height, cells, start_idx, curr_idx, last_direction,
                   walk_indexes, maze, pre_cells, carved, walks>>

\* one iteration of the walk loop, leaving the scratch list as `pushed`
WalkIteration(pushed) ==
    /\ pc = "walk"
    /\ walk_indexes' = pushed
    /\ \E r \in {choose_random_adjacent(curr_idx, directions) :
                       directions \in ShuffledDirections} :
          IF r.panic
             THEN /\ pc' = "panic_adjacent"
                  /\ UNCHANGED <<cells, curr_idx>>
             ELSE /\ cells' = walk_written(cells, curr_idx, r.direction,
                                            r.adjacent)
                  /\ IF hits_tree(cells', r.adjacent)
                     THEN /\ pc' = "carve"
                          /\ curr_idx' = carve_start(start_idx, curr_idx)
                     ELSE /\ pc' = "walk"
                          /\ curr_idx' = r.adjacent
    /\ UNCHANGED <<width, height, unvisited_candidates, start_idx,
                   last_direction, maze, pre_cells, carved, walks>>

\* one iteration of the walk loop: walk_indexes.push(curr_idx), then the step
WalkStep ==
    /\ Len(walk_indexes) < MaxWalk
    /\ WalkIteration(Append(walk_indexes, curr_idx))

\* The same iteration with a cell the walk re-enters kept once in the
\* scratch list.  The list is only read by the cleanup loop, which resets
\* each listed Walk cell and is idempotent, so the cells and the control flow
\* are those of WalkStep; the state space of an unbounded walk is finite.
WalkStepRevisiting ==
    WalkIteration(IF \E k \in 1..Len(walk_indexes) :
                        walk_indexes[k] = curr_idx
                  THEN walk_indexes
                  ELSE Append(walk_indexes, curr_idx))

\* one iteration of the carving loop
CarveStep ==
    /\ pc = "carve"
    /\ LET cell == cells[curr_idx]
       IN CASE IsWalk(cell) ->
                 LET direction == cell.direction
                     next == adjacent_index(curr_idx, direction)
                 IN /\ cells' = [cells EXCEPT ![curr_idx] =
                          carved_cell(direction, last_direction)]
                    /\ carved' = Append(carved, <<curr_idx, direction>>)
                    /\ IF next = None
                       THEN /\ pc' = "panic_carve_adjacent"
                            /\ UNCHANGED <<curr_idx, last_direction>>
                       ELSE /\ curr_idx' = next
                            /\ last_direction' = direction
                            /\ pc' = "carve"
            [] IsInMaze(cell) ->
                 /\ cells' = [cells EXCEPT ![curr_idx] =
                       joined_cell(cell.bits, last_direction)]
                 /\ pc' = "cleanup"
                 /\ UNCHANGED <<curr_idx, last_direction, carved>>
            [] OTHER ->
                 /\ pc' = "panic_carve"
                 /\ UNCHANGED <<cells, curr_idx, last_direction, carved>>
    /\ UNCHANGED <<width, height, unvisited_candidates, start_idx,
                   walk_indexes, maze, pre_cells, walks>>

\* the cleanup loop: every cell of the scratch list still Walk becomes Empty
Cleanup ==
    /\ pc = "cleanup"
    /\ cells' = [i \in Index |->
                   cleaned_cell(cells[i],
                                \E k \in 1..Len(walk_indexes) :
                                    walk_indexes[k] = i)]
    /\ start_idx' = None
    /\ curr_idx' = None
    /\ last_direction' = NoDirection
    /\ pc' = "outer"
    /\ UNCHANGED <<width, height, unvisited_candidates, walk_indexes, maze,
                   pre_cells, carved, walks>>

\* emission: copy every InMaze cell's bits into a fresh Maze
Emit ==
    /\ pc = "emit"
    /\ IF \A i \in Index : IsInMaze(cells[i])
       THEN /\ maze' = [MazeNew(width, height) EXCEPT
                          !.cells = [i \in Index |-> cells[i].bits]]
            /\ pc' = "done"
       ELSE /\ pc' = "panic_emit"
            /\ UNCHANGED maze
    /\ UNCHANGED <<width, height, cells, unvisited_candidates, start_idx,
                   curr_idx, last_direction, walk_indexes, pre_cells, carved,
                   walks>>

Next ==
    \/ GenerateEmpty
    \/ GenerateSeed
    \/ WalkStart
    \/ OuterEnd
    \/ WalkStep
    \/ CarveStep
    \/ Cleanup
    \/ Emit

Spec == Init /\ [][Next]_vars

\* ---------------------------------------------- unbounded walks, fairness ----
\* Grids of at most LiveMaxCells cells, walks of any length.
InitLive == Init /\ len <= LiveMaxCells

NextLive ==
    \/ GenerateEmpty
    \/ GenerateSeed
    \/ WalkStart
    \/ OuterEnd
    \/ WalkStepRevisiting
    \/ CarveStep
    \/ Cleanup
    \/ Emit

\* generate runs to its end: it never stops while a step is possible
LiveSpec == InitLive /\ [][NextLive]_vars /\ WF_vars(NextLive)

\* the walk loop picks the direction that leads to cell j
WalkTo(j) ==
    /\ WalkStepRevisiting
    /\ \E d \in Direction :
          cells'[curr_idx] = Walk(d) /\ adjacent_index(curr_idx, d) = j

\* A random source that is not forever one-sided: a cell the walk could
\* step to infinitely often is stepped to infinitely often.
FairPicks == \A j \in 0..(LiveMaxCells - 1) : SF_vars(WalkTo(j))

\* ------------------------------------------------- the graph of a grid ----
\* Cell i of a grid of width w is (Col, Row); an open west bit of (x, y) is
\* the edge to (x-1, y), an open north bit the edge to (x, y-1).
Col(w, i) == i % w
Row(w, i) == i \div w
CellAt(w, x, y) == y * w + x

\* the open bits of the cells V, as <<cell, side>>
OpenBits(V, bitsOf) ==
    {<<i, "west">> : i \in {j \in V : west_open(bitsOf[j])}}
      \cup {<<i, "north">> : i \in {j \in V : north_open(bitsOf[j])}}

\* the cell on the other side of the wall a bit owns (None past the border)
AcrossWall(w, b) ==
    IF b[2] = "west"
    THEN IF Col(w, b[1]) >= 1
         THEN CellAt(w, Col(w, b[1]) - 1, Row(w, b[1])) ELSE None
    ELSE IF Row(w, b[1]) >= 1
         THEN CellAt(w, Col(w, b[1]), Row(w, b[1]) - 1) ELSE None

EdgesOf(w, bits) == {{b[1], AcrossWall(w, b)} : b \in bits}

\* the cells joined to a cell of S by a path of edges of E
RECURSIVE Reach(_, _)
Reach(E, S) ==
    LET T == S \cup UNION {e \in E : e \cap S # {}}
    IN IF T = S THEN S ELSE Reach(E, T)

RECURSIVE NumComponents(_, _)
NumComponents(V, E) ==
    IF V = {} THEN 0
    ELSE LET v == CHOOSE x \in V : TRUE
         IN 1 + NumComponents(V \ Reach(E, {v}), E)

\* The cells V with their open bits are a tree: every open bit joins two
\* cells of V, there are |V| - 1 of them, V is connected and has no cycle
\* (a graph is a forest iff it has |V| - #components edges).
IsTree(V, w, bitsOf) ==
    LET bits == OpenBits(V, bitsOf)
        E == EdgesOf(w, bits)
    IN /\ \A b \in bits : AcrossWall(w, b) \in V
       /\ Cardinality(bits) = Cardinality(V) - 1
       /\ Reach(E, {CHOOSE x \in V : TRUE}) = V
       /\ Cardinality(E) = Cardinality(V) - NumComponents(V, E)

InMazeCells(cs) == {i \in DOMAIN cs : IsInMaze(cs[i])}
GenBits(cs) == [i \in DOMAIN cs |-> IF IsInMaze(cs[i]) THEN cs[i].bits ELSE 0]

\* ------------------------------------------------------------- claims ----
\* C1: for every grid with W*H >= 1 and every outcome of the random choices,
\* the Maze generate returns is a spanning tree of the grid graph: W*H - 1
\* open bits, each an edge between two cells of the grid, connected, acyclic.
C1_SpanningTree ==
    (pc = "done" /\ len >= 1) =>
        /\ maze.width = width /\ maze.height = height
        /\ DOMAIN maze.cells = Index
        /\ IsTree(Index, maze.width, maze.cells)

\* a 3 x 2 maze was returned in which some cell has both of its walls open
C1_Witness ==
    /\ pc = "done" /\ width = 3 /\ height = 2
    /\ \E i \in Index : maze.cells[i] = 3

\* C2: when the outer loop has ended every generator cell is InMaze, the
\* emission loop never reaches unreachable!(), and every output cell holds
\* the bits of its InMaze generator cell.
C2_AllInMazeAtEmission ==
    /\ pc = "emit" => \A i \in Index : IsInMaze(cells[i])
    /\ pc # "panic_emit"
    /\ (pc = "done" /\ len >= 1) =>
          \A i \in Index : IsInMaze(cells[i]) /\ maze.cells[i] = cells[i].bits

\* a 2 x 3 maze was emitted after at least two walks
C2_Witness ==
    /\ pc = "done" /\ width = 2 /\ height = 3 /\ walks >= 2
    /\ \A i \in Index : maze.cells[i] = cells[i].bits

\* C4: each time the outer loop is about to pick a start, the InMaze cells
\* with their open bits form a tree.
C4_TreeBetweenWalks ==
    pc = "outer" => IsTree(InMazeCells(cells), width, GenBits(cells))

\* between walks, a tree of three cells in a grid that still has Empty cells
C4_Witness ==
    /\ pc = "outer"
    /\ Cardinality(InMazeCells(cells)) = 3
    /\ \E i \in Index : cells[i] = Empty

\* the cells that became InMaze since the walk in progress started
Absorbed == InMazeCells(cells) \ InMazeCells(pre_cells)

\* the start of the walk in progress had an InMaze neighbour when it started
StartAdjacentToTree ==
    \E j \in InMazeCells(pre_cells) :
        \/ (Row(width, j) = Row(width, start_idx)
              /\ (Col(width, j) - Col(width, start_idx)) \in {-1, 1})
        \/ (Col(width, j) = Col(width, start_idx)
              /\ (Row(width, j) - Row(width, start_idx)) \in {-1, 1})

\* the bit that owns the wall between cell a and its neighbour in direction d
OwnerBit(w, a, d) ==
    CASE d = West -> <<a, "west">>
      [] d = North -> <<a, "north">>
      [] d = East -> <<CellAt(w, Col(w, a) + 1, Row(w, a)), "west">>
      [] d = South -> <<CellAt(w, Col(w, a), Row(w, a) + 1), "north">>

\* C5: each step of the replayed path from A to B in direction d opens
\* exactly the bit that owns the shared wall (A's west or north bit going
\* West or North, B's west or north bit going East or South), whether B is a
\* Walk cell being carved or the InMaze cell where the path rejoins the
\* tree: the open bits are those open before the walk plus the owner bit of
\* every step whose owning cell carving has handled.
C5_CarvingOpensOwnerBit ==
    pc \in {"carve", "cleanup"} =>
        LET handled == {k \in 1..Len(carved) :
                           \/ carved[k][2] \in {West, North}
                           \/ k < Len(carved)
                           \/ pc = "cleanup"}
        IN OpenBits(InMazeCells(cells), GenBits(cells))
             = OpenBits(InMazeCells(pre_cells), GenBits(pre_cells))
                 \cup {OwnerBit(width, carved[k][1], carved[k][2]) :
                          k \in handled}

\* carving ended on a path that went South into a Walk cell and then East
\* into the tree
C5_Witness ==
    /\ pc = "cleanup"
    /\ Len(carved) >= 2
    /\ carved[Len(carved)][2] = East
    /\ carved[Len(carved) - 1][2] = South

\* C6: on a two-cell grid the output does not depend on the random choices:
\* width 1, height 2 opens only north_open of cell (0,1); width 2, height 1
\* opens only west_open of cell (1,0).
C6_TwoCellGrids ==
    pc = "done" =>
        /\ (width = 1 /\ height = 2) =>
              maze.cells = (0 :> MazeCellNew(FALSE, FALSE)
                              @@ 1 :> MazeCellNew(FALSE, TRUE))
        /\ (width = 2 /\ height = 1) =>
              maze.cells = (0 :> MazeCellNew(FALSE, FALSE)
                              @@ 1 :> MazeCellNew(TRUE, FALSE))

\* the 1 x 2 maze was returned after the walk started at cell 0 (the seed
\* was cell 1, so the wall was opened on the existing maze cell)
C6_Witness ==
    /\ pc = "done" /\ width = 1 /\ height = 2
    /\ walk_indexes = <<0>>

\* whether the unit piece from (x1, y) to (x2, y) lies on a stroked segment
Stroked(segments, x1, y, x2) ==
    \E g \in segments : g[2] = y /\ g[4] = y /\ g[1] <= x1 /\ x2 <= g[3]

NorthGaps(m, cell_size) ==
    {x \in 0..(m.width - 1) :
        ~Stroked(draw(m, cell_size), x * cell_size, 0, (x + 1) * cell_size)}

SouthGaps(m, cell_size) ==
    {x \in 0..(m.width - 1) :
        ~Stroked(draw(m, cell_size), x * cell_size, m.height * cell_size,
                 (x + 1) * cell_size)}

\* C7: for every maze generate produces with W, H >= 1, the segments
\* Maze::draw strokes leave exactly one gap in the north border, at cell
\* (0,0), and exactly one in the south border, at cell (W-1, H-1).
C7_EntranceAndExit ==
    (pc = "done" /\ len >= 1) =>
        /\ NorthGaps(maze, CellSize) = {0}
        /\ SouthGaps(maze, CellSize) = {maze.width - 1}

\* a 3 x 2 maze was returned and drawn: the north walls of cells (1,0) and
\* (2,0) and the south border under cells (0,1) and (1,1) are stroked
C7_Witness ==
    /\ pc = "done" /\ width = 3 /\ height = 2
    /\ {<<CellSize, 0, 2 * CellSize, 0>>,
        <<2 * CellSize, 0, 3 * CellSize, 0>>,
        <<0, 2 * CellSize, 2 * CellSize, 2 * CellSize>>}
          \subseteq draw(maze, CellSize)

\* the path read by following the directions stored in Walk cells from i
RECURSIVE FollowDirections(_, _, _)
FollowDirections(cs, i, fuel) ==
    IF fuel = 0 \/ i = None \/ ~IsWalk(cs[i]) THEN <<>>
    ELSE <<i>> \o FollowDirections(cs, adjacent_index(i, cs[i].direction),
                                   fuel - 1)

\* the reference: the walk kept as an explicit list, the cycle deleted each
\* time a cell is revisited
RECURSIVE LoopErase(_, _, _)
LoopErase(path, walk, k) ==
    IF k > Len(walk) THEN path
    ELSE LET v == walk[k]
             at == {j \in 1..Len(path) : path[j] = v}
         IN IF at = {} THEN LoopErase(Append(path, v), walk, k + 1)
            ELSE LoopErase(SubSeq(path, 1, CHOOSE j \in at : TRUE), walk,
                           k + 1)

WalkPhaseEnded == pc = "carve" /\ carved = <<>>

\* C8: at the end of every walk phase, following the directions stored in
\* Walk cells from start visits each cell at most once, stays on Walk cells
\* until the first InMaze cell, and is the loop-erased path of the walk.
C8_DirectionsTraceLoopErasedWalk ==
    WalkPhaseEnded =>
        LET P == FollowDirections(cells, start_idx, len + 1)
            last == P[Len(P)]
        IN /\ Len(P) >= 1
           /\ \A j, k \in 1..Len(P) : P[j] = P[k] => j = k
           /\ adjacent_index(last, cells[last].direction) # None
           /\ IsInMaze(cells[adjacent_index(last, cells[last].direction)])
           /\ P = LoopErase(<<>>, walk_indexes, 1)

\* a walk ended whose loop around four cells was erased down to its start
C8_Witness ==
    /\ WalkPhaseEnded
    /\ Cardinality({walk_indexes[k] : k \in 1..Len(walk_indexes)}) = 4
    /\ Len(LoopErase(<<>>, walk_indexes, 1)) = 1

\* C9 as stated: a walk whose start had an InMaze neighbour absorbs exactly
\* one cell.
C9_AdjacentStartAbsorbsOne ==
    (pc = "cleanup" /\ StartAdjacentToTree) => Cardinality(Absorbed) = 1

\* C9 amended: when the first neighbour picked at the start is InMaze (the
\* walk loop ran once), the walk absorbs exactly its start cell.
C9_FirstPickInTreeAbsorbsStart ==
    (pc = "cleanup" /\ Len(walk_indexes) = 1) =>
        /\ StartAdjacentToTree
        /\ Absorbed = {start_idx}

\* a walk on a 2 x 2 grid ended after one step from a start next to the tree
C9_Witness ==
    /\ pc = "cleanup" /\ Len(walk_indexes) = 1
    /\ width = 2 /\ height = 2

\* C10: every completed walk turns its start into InMaze, and at least two
\* cells when the start had no InMaze neighbour; the number of cells not
\* InMaze strictly decreases and generate performs at most W*H - 1 walks.
C10_WalkAbsorbs ==
    /\ pc = "cleanup" =>
          /\ start_idx \in Absorbed
          /\ ~StartAdjacentToTree => Cardinality(Absorbed) >= 2
          /\ InMazeCells(pre_cells) \subseteq InMazeCells(cells)
          /\ Cardinality(Index \ InMazeCells(cells))
                < Cardinality(Index \ InMazeCells(pre_cells))
    /\ len >= 1 => walks <= len - 1

\* a walk completed from a start with no InMaze neighbour, absorbing three
\* cells
C10_Witness ==
    /\ pc = "cleanup"
    /\ ~StartAdjacentToTree
    /\ Cardinality(Absorbed) = 3

\* C3 as stated: for every outcome of the random choices generate returns.
C3_AlwaysReturns == <>(pc = "done")

\* C3 amended: generate returns whenever the random picks are fair.
C3_ReturnsUnderFairPicks == FairPicks => <>(pc = "done")

\* generate returned a 2 x 2 maze whose last walk went through three cells
C3_Witness ==
    /\ pc = "done" /\ width = 2 /\ height = 2
    /\ Len(walk_indexes) = 3

\* C11: the carving phase never aborts: every cell it inspects is Walk or
\* InMaze (never Empty, so unreachable!() is not reached), and for every
\* Walk(d) cell it carves, adjacent_index(curr, d) is a cell of the grid.
C11_CarvingNeverAborts ==
    /\ pc \notin {"panic_carve", "panic_carve_adjacent"}
    /\ pc = "carve" =>
          /\ curr_idx \in Index
          /\ cells[curr_idx] # Empty
          /\ IsWalk(cells[curr_idx]) =>
                adjacent_index(curr_idx, cells[curr_idx].direction) \in Index

\* carving is at the third Walk cell of a replayed path
C11_Witness ==
    /\ pc = "carve"
    /\ Len(carved) = 2
    /\ IsWalk(cells[curr_idx])

\* the cell one step from cell i of a w x h grid in direction d, by its
\* coordinates, or None when that step leaves the grid
Neighbour(w, h, i, d) ==
    LET x == Col(w, i) + (IF d = East THEN 1 ELSE IF d = West THEN -1 ELSE 0)
        y == Row(w, i) + (IF d = South THEN 1 ELSE IF d = North THEN -1 ELSE 0)
    IN IF 0 <= x /\ x < w /\ 0 <= y /\ y < h THEN CellAt(w, x, y) ELSE None

\* first valid direction of an order at cell i, by coordinates: the result
\* r of choose_random_adjacent is that direction and its neighbour
FirstValid(i, directions, r) ==
    LET valid == {k \in 1..4 :
                    Neighbour(width, height, i, directions[k]) # None}
        first == CHOOSE k \in valid : \A j \in valid : k <= j
    IN /\ valid # {}
       /\ ~r.panic
       /\ r.direction = directions[first]
       /\ r.adjacent = Neighbour(width, height, i, directions[first])

\* C12: whenever choose_random_adjacent is called during generate, for any
\* shuffled order of the four directions, it returns the first direction of
\* that order whose neighbour exists together with that neighbour; it never
\* reads past the fourth direction and never unwraps a missing neighbour.
\* width and height are fixed by new, so the function's results for every
\* cell and every order are compared where generate starts; every call is
\* made from a cell of the grid, and the step each call led to is one to an
\* existing neighbour.
C12_FirstValidDirection ==
    /\ pc # "panic_adjacent"
    /\ (pc = "generate" /\ len >= 2) =>
          \A i \in Index : \A directions \in ShuffledDirections :
             FirstValid(i, directions,
                        choose_random_adjacent(i, directions))
    /\ pc = "walk" =>
          /\ curr_idx \in Index
          /\ len >= 2
          /\ Len(walk_indexes) >= 1 =>
                LET prev == walk_indexes[Len(walk_indexes)]
                IN /\ IsWalk(cells[prev])
                   /\ curr_idx = Neighbour(width, height, prev,
                                           cells[prev].direction)

\* on a 1 x 3 grid the walk left the end cell 2, whose only neighbour is to
\* the North (the fourth direction of some shuffled orders), and is at cell 1
C12_Witness ==
    /\ pc = "walk" /\ width = 1 /\ height = 3
    /\ curr_idx = 1
    /\ cells[2] = Walk(North)

\* C13: once a generator cell is InMaze it stays InMaze for the rest of
\* generate, and its west_open and north_open bits only ever change from
\* closed to open.
C13_InMazeIsPermanent ==
    [][\A i \in Index :
          IsInMaze(cells[i]) =>
             /\ IsInMaze(cells'[i])
             /\ west_open(cells[i].bits) => west_open(cells'[i].bits)
             /\ north_open(cells[i].bits) => north_open(cells'[i].bits)]_vars

\* a walk ended that opened a wall of a cell that was InMaze before it
\* started and already had its other wall open
C13_Witness ==
    /\ pc = "cleanup"
    /\ \E i \in InMazeCells(pre_cells) :
          /\ pre_cells[i].bits \in {1, 2}
          /\ cells[i].bits = 3

\* C14: choose_walk_start removes indices from the end of the candidate
\* pool until it removes one whose cell is not InMaze, which it returns; it
\* returns none only when the pool is exhausted; so the start of a walk is
\* never a cell already in the tree.
C14_ChooseWalkStart ==
    /\ pc = "outer" =>
          LET p == unvisited_candidates
              r == choose_walk_start(p, cells)
              open == {k \in 1..Len(p) : ~IsInMaze(cells[p[k]])}
              top == CHOOSE k \in open : \A j \in open : j <= k
          IN IF open = {}
             THEN r.candidate = None /\ r.pool = <<>>
             ELSE r.candidate = p[top] /\ r.pool = SubSeq(p, 1, top - 1)
    /\ pc \in {"walk", "carve", "cleanup"} =>
          /\ start_idx \in Index
          /\ ~IsInMaze(pre_cells[start_idx])

\* the outer loop is about to pick a start from a pool whose top two
\* candidates are already InMaze and which still holds an Empty cell
C14_Witness ==
    /\ pc = "outer"
    /\ Len(unvisited_candidates) >= 3
    /\ IsInMaze(cells[unvisited_candidates[Len(unvisited_candidates)]])
    /\ IsInMaze(cells[unvisited_candidates[Len(unvisited_candidates) - 1]])
    /\ \E k \in 1..Len(unvisited_candidates) :
          cells[unvisited_candidates[k]] = Empty

\* C15: after the cleanup phase of every walk no generator cell is Walk
\* (between walks every cell is Empty or InMaze), because every cell given a
\* Walk state during the walk is in the scratch list and is carved or reset.
C15_NoWalkCellBetweenWalks ==
    /\ pc \in {"generate", "outer", "emit", "done"} =>
          \A i \in Index : cells[i] = Empty \/ IsInMaze(cells[i])
    /\ pc \in {"walk", "carve", "cleanup"} =>
          \A i \in Index :
             IsWalk(cells[i]) =>
                \E k \in 1..Len(walk_indexes) : walk_indexes[k] = i

\* between walks, a cell the last walk went through is Empty again: it was
\* erased from the path and reset
C15_Witness ==
    /\ pc = "outer"
    /\ \E k \in 1..Len(walk_indexes) : cells[walk_indexes[k]] = Empty

\* the entries generate reserves for the scratch list, in units of W*H:
\* Vec::with_capacity(self.len())
ScratchFactor == 1

\* C16: during every walk the length of the walk scratch list stays below a
\* fixed multiple of W*H (here the W*H entries generate reserves for it),
\* whatever the random choices are.
C16_ScratchListLinear ==
    Len(walk_indexes) <= ScratchFactor * len

Opposite(d) ==
    CASE d = North -> South
      [] d = South -> North
      [] d = East -> West
      [] d = West -> East

\* adjacent_index at cell i is the coordinate-wise neighbour in all four
\* directions, and the opposite direction leads back to i
AdjacentAsNeighbour(i) ==
    \A d \in Direction :
        LET j == adjacent_index(i, d)
        IN /\ j = Neighbour(width, height, i, d)
           /\ j # None => adjacent_index(j, Opposite(d)) = i

\* C17: for every W, H >= 1, index i in [0, W*H) and direction d,
\* adjacent_index(i, d) is the index of the cell one step from
\* (i mod W, i div W) in direction d when that cell lies in the grid and
\* none otherwise; whenever adjacent_index(i, d) = j,
\* adjacent_index(j, opposite(d)) = i.  Checked for all cells of every grid
\* where generate starts (width and height never change afterwards), and
\* at the walk's current cell in every later state.
C17_AdjacentIndex ==
    /\ pc = "generate" => \A i \in Index : AdjacentAsNeighbour(i)
    /\ curr_idx # None => AdjacentAsNeighbour(curr_idx)

\* on the 1 x 3 grid (no West or East neighbour anywhere) the walk stepped
\* South from cell 1 to cell 2
C17_Witness ==
    /\ pc = "walk" /\ width = 1 /\ height = 3
    /\ cells[1] = Walk(South)
    /\ curr_idx = 2

\* the indices held by the candidate pool
PoolIndexes == {unvisited_candidates[k] : k \in 1..Len(unvisited_candidates)}

\* C18: between walks every cell that is not InMaze still has its index in
\* the candidate pool, and no index occurs in the pool more than once.
C18_PoolKeepsUnvisited ==
    pc = "outer" =>
        /\ \A i \in Index : ~IsInMaze(cells[i]) => i \in PoolIndexes
        /\ \A k, m \in 1..Len(unvisited_candidates) :
              unvisited_candidates[k] = unvisited_candidates[m] => k = m

\* between walks, a cell the last walk went through and erased from its path
\* is Empty and still in the pool
C18_Witness ==
    /\ pc = "outer" /\ walks >= 1
    /\ \E k \in 1..Len(walk_indexes) :
          /\ cells[walk_indexes[k]] = Empty
          /\ walk_indexes[k] \in PoolIndexes

\* C19: in every reachable state of generate no cell of column 0 has
\* west_open set and no cell of row 0 has north_open set, in the generator's
\* cells and in the Maze it returns.
C19_NoBorderBitOpen ==
    /\ \A i \in Index :
          IsInMaze(cells[i]) =>
             /\ Col(width, i) = 0 => ~west_open(cells[i].bits)
             /\ Row(width, i) = 0 => ~north_open(cells[i].bits)
    /\ pc = "done" =>
          \A i \in Index :
             /\ Col(width, i) = 0 => ~west_open(maze.cells[i])
             /\ Row(width, i) = 0 => ~north_open(maze.cells[i])

\* a finished 2 x 2 maze whose column-0 cell 2 opens north and whose row-0
\* cell 1 opens west
C19_Witness ==
    /\ pc = "done" /\ width = 2 /\ height = 2
    /\ north_open(maze.cells[2]) /\ ~west_open(maze.cells[2])
    /\ west_open(maze.cells[1]) /\ ~north_open(maze.cells[1])

\* the last direction of the carved path and the cell it leads into
JoinDirection == carved[Len(carved)][2]
JoinCell == Neighbour(width, height, carved[Len(carved)][1], JoinDirection)

\* cell j went from old to new by opening exactly the bit the entry direction
\* d owns, nothing for North and West
OpenedByEntry(old, new, d) ==
    /\ IsInMaze(new)
    /\ new.bits \in 0..3
    /\ west_open(new.bits) <=> (west_open(old.bits) \/ d = East)
    /\ north_open(new.bits) <=> (north_open(old.bits) \/ d = South)
    /\ d = East => ~west_open(old.bits)
    /\ d = South => ~north_open(old.bits)

\* C20: a whole walk (walk phase, carving, cleanup) leaves every cell that
\* was InMaze before the walk unchanged, except the single InMaze cell where
\* the carved path rejoins the tree, on which at most one bit is opened:
\* west_open if entered moving East, north_open if entered moving South,
\* nothing if entered moving North or West.
C20_WalkFrame ==
    /\ pc \in {"walk", "carve"} =>
          \A i \in InMazeCells(pre_cells) : cells[i] = pre_cells[i]
    /\ (pc \in {"cleanup", "outer", "emit", "done"} /\ walks >= 1) =>
          /\ Len(carved) >= 1
          /\ JoinCell \in InMazeCells(pre_cells)
          /\ pc = "cleanup" => curr_idx = JoinCell
          /\ \A i \in InMazeCells(pre_cells) \ {JoinCell} :
                cells[i] = pre_cells[i]
          /\ OpenedByEntry(pre_cells[JoinCell], cells[JoinCell],
                           JoinDirection)

\* after a second walk's cleanup: the path entered the tree moving East and
\* opened the join cell's west wall, and another tree cell is as it was
C20_Witness ==
    /\ pc = "outer" /\ walks >= 2
    /\ JoinDirection = East
    /\ west_open(cells[JoinCell].bits)
    /\ ~west_open(pre_cells[JoinCell].bits)
    /\ \E i \in InMazeCells(pre_cells) \ {JoinCell} : cells[i] = pre_cells[i]

=============================================================================
